---------------------------- MODULE Spec2Model ----------------------------
(***************************************************************************)
(* News-room: the headlines handler of src/api/headlines.js (the current   *)
(* handler, lines 427-489, with its helpers and fetch strategies), and the *)
(* two older handlers of src/unnamed/part_000 and src/unnamed/part_001.    *)
(*                                                                         *)
(* Strings that are searched for keywords are sequences of one-character   *)
(* strings, so that String.prototype.includes and toLowerCase are computed *)
(* and not assumed.  Instants are milliseconds counted from                *)
(* 2025-10-16T01:00:00Z, ten days before Europe/Berlin leaves summer time  *)
(* (2025-10-26T01:00:00Z).                                                 *)
(***************************************************************************)
EXTENDS Integers, Sequences, FiniteSets, TLC

VARIABLES
  handler,   \* the file whose handler serves the request
  page,      \* the cards $(".views-row, article, .card") selects in a page
  pj,        \* index of the next card the each callback visits
  scraped,   \* the array `out` the each callback pushes to
  cfg,       \* the configuration document returned by loadConfig
  pc,        \* position of the handler
  src,       \* one record per source: the state of its async callback
  order,     \* indices of the sources in the order their callbacks settled
  results,   \* the array Promise.all resolves with
  flat,      \* results.flat()
  fi,        \* index of the next element the filter callback visits
  filtered,  \* the array built by flat.filter, sorted in place later
  visits,    \* per visited element: its two keyword matches and the two
             \* clock values its isWithinDays calls read
  clock,     \* the system clock (what DateTime.now() returns)
  res        \* the response written through res.status(..).json(..)

vars == <<handler, page, pj, scraped, cfg, pc, src, order, results, flat, fi, filtered, visits, clock, res>>

---------------------------------------------------------------------------
(* Bounds of the model *)

MaxSources == 2      \* longest configured source list
MaxItems == 3        \* longest flat list the filter is started on directly
MaxTicks == 1        \* milliseconds the clock may advance during one run
MaxCards == 3        \* most cards of a listing page that is scraped directly

---------------------------------------------------------------------------
(* Keyword lists *)

FUNDING_WORDS ==
  << <<"f","u","n","d","i","n","g">>,
     <<"f","u","n","d","s">>,
     <<"b","u","d","g","e","t">>,
     <<"b","u","d","g","e","t","s">>,
     <<"a","i","d">>,
     <<"o","d","a">>,
     <<"o","f","f","i","c","i","a","l"," ","d","e","v","e","l","o","p","m","e","n","t"," ","a","s","s","i","s","t","a","n","c","e">>,
     <<"a","p","p","r","o","p","r","i","a","t","i","o","n">>,
     <<"a","p","p","r","o","p","r","i","a","t","i","o","n","s">>,
     <<"s","p","e","n","d","i","n","g">>,
     <<"c","u","t">>,
     <<"c","u","t","s">>,
     <<"r","e","d","u","c","t","i","o","n">>,
     <<"r","e","d","u","c","t","i","o","n","s">>,
     <<"i","n","c","r","e","a","s","e">>,
     <<"i","n","c","r","e","a","s","e","s">>,
     <<"p","l","e","d","g","e">>,
     <<"p","l","e","d","g","e","s">>,
     <<"g","r","a","n","t">>,
     <<"g","r","a","n","t","s">>,
     <<"d","o","n","o","r">>,
     <<"d","o","n","o","r","s">>,
     <<"f","u","n","d","i","n","g"," ","c","u","t">>,
     <<"b","u","d","g","e","t"," ","c","u","t">>,
     <<"f","u","n","d","i","n","g"," ","i","n","c","r","e","a","s","e">>,
     <<"b","u","d","g","e","t"," ","i","n","c","r","e","a","s","e">>,
     <<"f","c","d","o">>,
     <<"u","k"," ","a","i","d">>,
     <<"u","s","a","i","d">>,
     <<"s","t","a","t","e"," ","d","e","p","a","r","t","m","e","n","t">>,
     <<"s","i","d","a">>,
     <<"n","o","r","a","d">>,
     <<"g","i","z">>,
     <<"k","f","w">>,
     <<"a","f","d">>,
     <<"g","l","o","b","a","l"," ","a","f","f","a","i","r","s"," ","c","a","n","a","d","a">>,
     <<"i","r","i","s","h"," ","a","i","d">>,
     <<"d","f","a","t">>,
     <<"d","f","a","t","d">>,
     <<"a","u","s","a","i","d">>,
     <<"n","z","a","i","d">>,
     <<"j","i","c","a">>,
     <<"k","o","i","c","a">>,
     <<"a","d","b">>,
     <<"a","f","d","b">>,
     <<"a","f","r","i","c","a","n"," ","d","e","v","e","l","o","p","m","e","n","t"," ","b","a","n","k">>,
     <<"i","s","d","b">>,
     <<"i","s","l","a","m","i","c"," ","d","e","v","e","l","o","p","m","e","n","t"," ","b","a","n","k">>,
     <<"w","o","r","l","d"," ","b","a","n","k">>,
     <<"i","b","r","d">>,
     <<"i","d","a">>,
     <<"i","f","c">>,
     <<"i","m","f">>,
     <<"u","n","d","p">>,
     <<"w","f","p">>,
     <<"u","n","i","c","e","f">>,
     <<"o","e","c","d"," ","d","a","c">>,
     <<"e","i","b">>,
     <<"e","c","h","o">>,
     <<"e","u"," ","h","u","m","a","n","i","t","a","r","i","a","n">>,
     <<"d","e","v","e","l","o","p","m","e","n","t"," ","f","i","n","a","n","c","e">>,
     <<"d","e","v","e","l","o","p","m","e","n","t"," ","a","s","s","i","s","t","a","n","c","e">>,
     <<"o","f","f","i","c","i","a","l"," ","a","i","d">> >>

DONOR_COUNTRY_TERMS ==
  << <<"u","n","i","t","e","d"," ","s","t","a","t","e","s">>,
     <<"u","s","a">>,
     <<"u",".","s",".">>,
     <<"u","s"," ">>,
     <<"c","a","n","a","d","a">>,
     <<"u","n","i","t","e","d"," ","k","i","n","g","d","o","m">>,
     <<"u","k">>,
     <<"b","r","i","t","a","i","n">>,
     <<"b","r","i","t","i","s","h">>,
     <<"a","u","s","t","r","a","l","i","a">>,
     <<"n","e","w"," ","z","e","a","l","a","n","d">>,
     <<"i","r","e","l","a","n","d">>,
     <<"e","u","r","o","p","e","a","n"," ","u","n","i","o","n">>,
     <<"e","u">>,
     <<"g","e","r","m","a","n","y">>,
     <<"g","e","r","m","a","n">>,
     <<"f","r","a","n","c","e">>,
     <<"f","r","e","n","c","h">>,
     <<"n","e","t","h","e","r","l","a","n","d","s">>,
     <<"d","u","t","c","h">>,
     <<"n","o","r","w","a","y">>,
     <<"n","o","r","w","e","g","i","a","n">>,
     <<"s","w","e","d","e","n">>,
     <<"s","w","e","d","i","s","h">>,
     <<"d","e","n","m","a","r","k">>,
     <<"d","a","n","i","s","h">>,
     <<"f","i","n","l","a","n","d">>,
     <<"f","i","n","n","i","s","h">>,
     <<"s","w","i","t","z","e","r","l","a","n","d">>,
     <<"s","w","i","s","s">>,
     <<"s","p","a","i","n">>,
     <<"i","t","a","l","y">>,
     <<"b","e","l","g","i","u","m">>,
     <<"a","u","s","t","r","i","a">>,
     <<"l","u","x","e","m","b","o","u","r","g">>,
     <<"p","o","r","t","u","g","a","l">>,
     <<"j","a","p","a","n">>,
     <<"j","a","p","a","n","e","s","e">>,
     <<"s","o","u","t","h"," ","k","o","r","e","a">>,
     <<"k","o","r","e","a">>,
     <<"k","o","r","e","a","n">> >>

DEFAULT_REGION_WORDS ==
  << <<"a","f","r","i","c","a">>,
     <<"s","u","b","-","s","a","h","a","r","a","n">>,
     <<"s","a","h","e","l">>,
     <<"h","o","r","n"," ","o","f"," ","a","f","r","i","c","a">>,
     <<"e","a","s","t"," ","a","f","r","i","c","a">>,
     <<"w","e","s","t"," ","a","f","r","i","c","a">>,
     <<"c","e","n","t","r","a","l"," ","a","f","r","i","c","a">>,
     <<"s","o","u","t","h","e","r","n"," ","a","f","r","i","c","a">>,
     <<"s","o","u","t","h"," ","a","s","i","a">>,
     <<"s","o","u","t","h","e","a","s","t"," ","a","s","i","a">>,
     <<"a","s","e","a","n">>,
     <<"e","t","h","i","o","p","i","a">>,
     <<"z","a","m","b","i","a">>,
     <<"r","w","a","n","d","a">>,
     <<"u","g","a","n","d","a">>,
     <<"t","a","n","z","a","n","i","a">>,
     <<"k","e","n","y","a">>,
     <<"b","u","r","u","n","d","i">>,
     <<"d","e","m","o","c","r","a","t","i","c"," ","r","e","p","u","b","l","i","c"," ","o","f"," ","c","o","n","g","o">>,
     <<"d","r","c">>,
     <<"n","i","g","e","r","i","a">>,
     <<"b","e","n","i","n">>,
     <<"t","o","g","o">>,
     <<"s","e","n","e","g","a","l">>,
     <<"i","v","o","r","y"," ","c","o","a","s","t">>,
     <<"c","o","t","e"," ","d","'","i","v","o","i","r","e">>,
     <<"m","a","l","i">>,
     <<"n","i","g","e","r">>,
     <<"s","o","u","t","h"," ","s","u","d","a","n">>,
     <<"b","a","n","g","l","a","d","e","s","h">>,
     <<"i","n","d","o","n","e","s","i","a">>,
     <<"p","h","i","l","i","p","p","i","n","e","s">>,
     <<"t","i","b","e","t">>,
     <<"v","i","e","t","n","a","m">>,
     <<"s","a","h","e","l">> >>


FUNDING_TRIGGERS == FUNDING_WORDS \o DONOR_COUNTRY_TERMS

---------------------------------------------------------------------------
(* Character strings *)

UpperCase == <<"A","B","C","D","E","F","G","H","I","J","K","L","M",
               "N","O","P","Q","R","S","T","U","V","W","X","Y","Z">>
LowerCase == <<"a","b","c","d","e","f","g","h","i","j","k","l","m",
               "n","o","p","q","r","s","t","u","v","w","x","y","z">>

\* String.prototype.toLowerCase
lowerOf == [c \in {UpperCase[j] : j \in 1..26} |->
              LowerCase[CHOOSE j \in 1..26 : UpperCase[j] = c]]
RECURSIVE toLowerCase(_)
toLowerCase(s) ==
  IF s = <<>> THEN <<>>
  ELSE Append(toLowerCase(SubSeq(s, 1, Len(s) - 1)),
              IF s[Len(s)] \in DOMAIN lowerOf THEN lowerOf[s[Len(s)]] ELSE s[Len(s)])

\* String.prototype.includes: k occurs in t at some position i
includes(t, k) ==
  \/ k = <<>>
  \/ \E i \in 1..(Len(t) - Len(k) + 1) :
       t[i] = k[1] /\ \A j \in 2..Len(k) : t[i + j - 1] = k[j]

\* Array.prototype.map(s => s.toLowerCase())
mapToLowerCase(list) == [i \in 1..Len(list) |-> toLowerCase(list[i])]

matchAny(text, list) ==
  LET t == toLowerCase(text)
  IN  \E i \in 1..Len(list) : includes(t, list[i])

---------------------------------------------------------------------------
(* Texts of the model: item titles, feed and source labels, host names *)

TitleFunding == <<"U","K"," ","a","i","d">>
TitleRegion == <<"M","a","l","i">>
TitleCustom == <<"S","u","d","a","n">>
TitlePlain == <<"R","a","i","n">>
NoTitle == <<"(","n","o"," ","t","i","t","l","e",")">>
FeedTitle == <<"B","B","C">>
LabelReliefWeb == <<"R","e","l","i","e","f","W","e","b">>
LabelDonorTracker == <<"D","o","n","o","r","T","r","a","c","k","e","r">>
TextError == <<"e","r","r","o","r">>
RegionMali == <<"M", "a", "l", "i">>
RegionSudan == <<"S","u","d","a","n">>
HostReliefWeb == <<"r","e","l","i","e","f","w","e","b",".","i","n","t">>
HostDonorTracker == <<"d","o","n","o","r","t","r","a","c","k","e","r",".","o","r","g">>
HostGuardian == <<"w","w","w",".","t","h","e","g","u","a","r","d","i","a","n",".","c","o","m">>
HostTNH == <<"w","w","w",".","t","h","e","n","e","w","h","u","m","a","n","i","t","a","r","i","a","n",".","o","r","g">>
HostBoth == <<"r","e","l","i","e","f","w","e","b",".","i","n","t",".","d","o","n","o","r","t","r","a","c","k","e","r",".","o","r","g">>
SubReliefWeb == <<"r","e","l","i","e","f","w","e","b",".","i","n","t">>
SubDonorTracker == <<"d","o","n","o","r","t","r","a","c","k","e","r",".","o","r","g">>
SubTNH == <<"t","h","e","n","e","w","h","u","m","a","n","i","t","a","r","i","a","n",".","o","r","g">>

---------------------------------------------------------------------------
(* Optional values: a missing property, null and undefined are the empty   *)
(* sequence, a present value v is <<v>>.                                   *)

Absent == <<>>
Some(v) == <<v>>

---------------------------------------------------------------------------
(* Time: luxon DateTime in a zone *)

MsPerHour == 3600000
MsPerDay == 86400000
FundingWindowDays == 7
DefaultMaxAgeDays == 3
DefaultPerSource == 10

\* 2025-10-26T01:00:00Z: Europe/Berlin goes from +02:00 back to +01:00
FallBack == 10 * MsPerDay

\* Zone.offset(ts) of the IANA zones the configurations name, in ms
Offset(zone, ts) ==
  IF zone = "Europe/Berlin"
  THEN IF ts < FallBack THEN 2 * MsPerHour ELSE MsPerHour
  ELSE 0

Min(a, b) == IF a <= b THEN a ELSE b

\* DateTime.toISO(): the wall-clock reading followed by the UTC offset.
\* The string is modelled as <<wall clock, offset>>; for the fixed-width
\* rendering "YYYY-MM-DDTHH:mm:ss.SSS+HH:MM" the order of two strings is the
\* lexicographic order of these pairs.  null and "" are <<>>.
toISO(ts, zone) == <<ts + Offset(zone, ts), Offset(zone, ts)>>

\* DateTime.fromISO(iso).setZone(zone): the instant the string denotes
fromISO(iso) == iso[1] - iso[2]

\* DateTime.now().setZone(zone).minus({ days }): luxon subtracts calendar
\* days from the wall clock and then resolves the offset (fixOffset)
minusDays(now, days, zone) ==
  LET o  == Offset(zone, now)
      lt == now + o - days * MsPerDay
      g1 == lt - o
      o2 == Offset(zone, g1)
      g2 == g1 - (o2 - o)
      o3 == Offset(zone, g2)
  IN  IF o2 = o THEN g1
      ELSE IF o2 = o3 THEN g2
      ELSE lt - Min(o2, o3)

\* (a window test that lets a null date through)
isWithinDaysOrNull(dt, days, zone, now) ==
  IF dt = Absent THEN TRUE
  ELSE dt[1] >= minusDays(now, days, zone)

\* isWithinDays(dt, days, zone), with the value DateTime.now() returned
isWithinDays(dt, days, zone, now) ==
  IF dt = Absent THEN FALSE
  ELSE dt[1] >= minusDays(now, days, zone)

\* String.prototype.localeCompare on two publishedISO strings: -1, 0 or 1
localeCompare(x, y) ==
  IF x = y THEN 0
  ELSE IF x = <<>> THEN -1
  ELSE IF y = <<>> THEN 1
  ELSE IF x[1] # y[1] THEN (IF x[1] < y[1] THEN -1 ELSE 1)
  ELSE IF x[2] < y[2] THEN -1 ELSE 1

\* the comparator of filtered.sort
compareItems(a, b) == localeCompare(b.publishedISO, a.publishedISO)

\* (a sort that puts an element before the elements it compares equal to)
RECURSIVE insertUnstable(_, _)
insertUnstable(sorted, it) ==
  IF sorted = <<>> THEN <<it>>
  ELSE IF compareItems(sorted[Len(sorted)], it) < 0
       THEN Append(sorted, it)
       ELSE Append(insertUnstable(SubSeq(sorted, 1, Len(sorted) - 1), it),
                   sorted[Len(sorted)])

\* Array.prototype.sort: a stable sort by the comparator
RECURSIVE insertSorted(_, _)
insertSorted(sorted, it) ==
  IF sorted = <<>> THEN <<it>>
  ELSE IF compareItems(sorted[Len(sorted)], it) <= 0
       THEN Append(sorted, it)
       ELSE Append(insertSorted(SubSeq(sorted, 1, Len(sorted) - 1), it),
                   sorted[Len(sorted)])

RECURSIVE sort(_)
sort(arr) ==
  IF arr = <<>> THEN <<>>
  ELSE insertSorted(sort(SubSeq(arr, 1, Len(arr) - 1)), arr[Len(arr)])

---------------------------------------------------------------------------
(* Values the handler derives from the configuration (lines 431-440) *)

zone == IF cfg.timezone = "" THEN "UTC" ELSE cfg.timezone

maxAgeDays ==
  IF cfg.maxAgeDays = Absent THEN DefaultMaxAgeDays ELSE cfg.maxAgeDays[1]

\* (the configured words are added to the default list)
regionWordsWithDefaults ==
  IF cfg.regions.isArray /\ Len(cfg.regions.list) > 0
  THEN mapToLowerCase(cfg.regions.list) \o DEFAULT_REGION_WORDS
  ELSE DEFAULT_REGION_WORDS

\* lines 434-437
regionWords ==
  IF cfg.regions.isArray /\ Len(cfg.regions.list) > 0
  THEN mapToLowerCase(cfg.regions.list)
  ELSE DEFAULT_REGION_WORDS

perSource ==
  IF cfg.news.perSource = Absent THEN DefaultPerSource
  ELSE cfg.news.perSource[1]

sources == cfg.news.sources

---------------------------------------------------------------------------
(* Filtering and ranking (lines 462-485) *)

\* what the filter callback computes for one element: now1 and now2 are the
\* values DateTime.now() returns inside the two isWithinDays calls
isFunding(it) == matchAny(toLowerCase(it.text), FUNDING_TRIGGERS)
hasRegion(it) == matchAny(toLowerCase(it.text), regionWords)
dtOf(it) ==
  IF it.publishedISO = Absent THEN Absent ELSE Some(fromISO(it.publishedISO))
\* (the region test lets undated items through)
recentOrUndated(it, now1) ==
  isWithinDays(dtOf(it), maxAgeDays, zone, now1) \/ dtOf(it) = Absent
recent(it, now1) == isWithinDays(dtOf(it), maxAgeDays, zone, now1)
\* (the funding test uses the configured window)
fundingRecentMaxAge(it, now2) ==
  isWithinDays(dtOf(it), maxAgeDays, zone, now2) \/ dtOf(it) = Absent
fundingRecent(it, now2) ==
  isWithinDays(dtOf(it), FundingWindowDays, zone, now2) \/ dtOf(it) = Absent
\* (one recency test for both classifications)
keepIfRecent(funding, fundingOk, region, regionOk) ==
  (funding \/ region) /\ regionOk

\* the value the filter callback returns (line 475)
keep(funding, fundingOk, region, regionOk) ==
  (funding /\ fundingOk) \/ (region /\ regionOk)

\* the object the output map builds from a kept element
toOutput(it) ==
  [id |-> it.id, title |-> it.title, url |-> it.url, source |-> it.source,
   published |-> it.publishedISO, originalUrl |-> it.originalUrl]

\* the elements of a list, each tagged with its index (object identity)
withIds(list) ==
  [i \in 1..Len(list) |-> [id |-> i] @@ list[i]]

StartClock == FallBack + MsPerHour
ClockLimit == StartClock + MaxTicks

\* the values DateTime.now() may return in a call that starts at `from`;
\* isWithinDays returns before it reads the clock when dt is null (line 281)
clockReads(it, from) ==
  IF dtOf(it) = Absent THEN {from} ELSE from..ClockLimit

\* one call of the filter callback (lines 465-476)
FilterItem ==
  /\ pc = "filter"
  /\ fi <= Len(flat)
  /\ LET it == flat[fi]
         funding == isFunding(it)
         region == hasRegion(it)
     IN  \E now1 \in clockReads(it, clock) : \E now2 \in clockReads(it, now1) :
           /\ filtered' =
                IF keep(funding, fundingRecent(it, now2), region, recent(it, now1))
                THEN Append(filtered, it) ELSE filtered
           /\ visits' = Append(visits, [isFunding |-> funding, hasRegion |-> region,
                                        nowRegion |-> now1, nowFunding |-> now2])
           /\ clock' = now2
  /\ fi' = fi + 1
  /\ UNCHANGED <<handler, page, pj, scraped, cfg, pc, src, order, results, flat, res>>

\* filtered.sort (line 478)
SortFiltered ==
  /\ pc = "filter"
  /\ fi > Len(flat)
  /\ filtered' = sort(filtered)
  /\ pc' = "respond"
  /\ UNCHANGED <<handler, page, pj, scraped, cfg, src, order, results, flat, fi, visits, clock, res>>

\* lines 480-485
Respond ==
  /\ pc = "respond"
  /\ res' = Some([status |-> 200,
                  news |-> [i \in 1..Len(filtered) |-> toOutput(filtered[i])],
                  count |-> Len(filtered),
                  timezone |-> Some(zone),
                  error |-> Absent])
  /\ pc' = "done"
  /\ UNCHANGED <<handler, page, pj, scraped, cfg, src, order, results, flat, fi, filtered, visits, clock>>

---------------------------------------------------------------------------
(* Source URLs.  A string that is not searched character by character is   *)
(* a sequence of pieces and "" is <<>>, so that template literals and      *)
(* string concatenation are \o.                                            *)

UrlReliefWeb == <<"https://reliefweb.int/updates/rss.xml">>
UrlDonorTracker == <<"https://donortracker.org/policy_updates">>
UrlGuardian == <<"https://www.theguardian.com/global-development/rss">>
UrlTNH == <<"https://www.thenewhumanitarian.org/rss.xml">>
UrlReliefWebApi ==
  <<"https://api.reliefweb.int/v1/reports?appname=news-dashboard&profile=simple&sort[]=date:desc&limit=">>
UrlBoth == <<"https://reliefweb.int.donortracker.org/feed">>
UrlUnparseable == <<"not a url">>
UrlUndefined == <<"undefined">>     \* what `${url}` renders for undefined

\* the alternates fetchRSS pushes (lines 399-401)
UrlTNHRss == <<"https://www.thenewhumanitarian.org/rss.xml">>
UrlTNHAll == <<"https://www.thenewhumanitarian.org/feeds/all.rss">>
UrlTNHBare == <<"https://thenewhumanitarian.org/rss.xml">>

\* the candidates of fetchDonorTracker (lines 326-329)
UrlDTUnderscore == <<"https://donortracker.org/policy_updates">>
UrlDTHyphen == <<"https://donortracker.org/policy-updates">>

\* new URL(url).hostname: the host name, or Absent where new URL throws
hostname(url) ==
  CASE url = UrlReliefWeb -> Some(HostReliefWeb)
    [] url = UrlDonorTracker -> Some(HostDonorTracker)
    [] url = UrlDTHyphen -> Some(HostDonorTracker)
    [] url = UrlGuardian -> Some(HostGuardian)
    [] url = UrlTNH -> Some(HostTNH)
    [] url = UrlTNHAll -> Some(HostTNH)
    [] url = UrlTNHBare -> Some(SubTNH)
    [] url = UrlBoth -> Some(HostBoth)
    [] OTHER -> Absent

---------------------------------------------------------------------------
(* What the remote side sends *)

\* a raw date string, described by what each luxon parser makes of it
RawDate(iso, rfc, js) == [empty |-> FALSE, iso |-> iso, rfc2822 |-> rfc, js |-> js]
NoDate == [empty |-> TRUE, iso |-> Absent, rfc2822 |-> Absent, js |-> Absent]

\* null, as `a || b || null` gives it (line 312): luxon's fromISO makes an
\* invalid DateTime of it, new Date(null) is the epoch
NullDate == [empty |-> TRUE, iso |-> Absent, rfc2822 |-> Absent, js |-> Some(0)]

\* (the message-date format is tried before the calendar-date format)
parseDateRfcFirst(s, z) ==
  IF s.empty THEN Absent
  ELSE IF s.rfc2822 # Absent THEN s.rfc2822
  ELSE IF s.iso # Absent THEN s.iso
  ELSE s.js

\* parseDate (lines 273-278): the valid DateTime or null
parseDate(s, z) ==
  IF s.empty THEN Absent
  ELSE IF s.iso # Absent THEN s.iso
  ELSE IF s.rfc2822 # Absent THEN s.rfc2822
  ELSE s.js

\* x || y on strings and on raw dates
orElse(x, y) == IF x = <<>> THEN y ELSE x
orElseDate(x, y) == IF x.empty THEN y ELSE x

\* (a sentinel that keeps the URL of the source)
sentinelWithUrl(url, message) ==
  [title |-> <<"Failed to fetch: ">> \o url \o <<" (">> \o message \o <<")">>,
   url |-> url,
   source |-> <<"error">>,
   publishedISO |-> Absent,
   text |-> TextError,
   originalUrl |-> Absent]

\* the object built for a source whose strategy threw (lines 451-457)
sentinel(url, message) ==
  [title |-> <<"Failed to fetch: ">> \o url \o <<" (">> \o message \o <<")">>,
   url |-> <<>>,
   source |-> <<"error">>,
   publishedISO |-> Absent,
   text |-> TextError,
   originalUrl |-> Absent]

\* the object fetchReliefWeb builds from one record d (lines 310-320)
reliefWebItem(d, z) ==
  LET t == orElse(d.title, NoTitle)
      published == orElseDate(d.created, d.original)
      dt == parseDate(published, z)
  IN  [title |-> t,
       url |-> d.url,
       source |-> <<"ReliefWeb Updates">>,
       publishedISO |-> IF dt # Absent THEN toISO(dt[1], z) ELSE Absent,
       text |-> t \o <<" ">> \o LabelReliefWeb,
       originalUrl |-> Absent]

\* the object fetchRSS builds from one feed entry (lines 413-420)
rssItem(it, title, z) ==
  LET published ==
        parseDate(orElseDate(it.isoDate,
                    orElseDate(it.pubDate, orElseDate(it.published, it.updated))), z)
  IN  [title |-> orElse(it.title, NoTitle),
       url |-> orElse(it.link, it.guid),
       source |-> title,
       publishedISO |-> IF published # Absent THEN toISO(published[1], z) ELSE Absent,
       text |-> it.title \o <<" ">> \o title,
       originalUrl |-> Absent]

\* Array.prototype.slice(0, n)
slice(arr, n) == SubSeq(arr, 1, Min(Len(arr), n))

\* the callback of $(...).each in fetchDonorTracker (lines 338-385): `out`
\* after the card el
prefixed(href) ==
  [s |-> <<"https://donortracker.org">> \o href.s,
   http |-> TRUE, slash |-> FALSE, dt |-> TRUE]

absoluteOf(href) ==
  IF href.http THEN Some(href)
  ELSE IF href.slash THEN Some(prefixed(href))
  ELSE Absent

\* the first link of the card that is absolute and not on donortracker.org
RECURSIVE firstExternal(_)
firstExternal(links) ==
  IF links = <<>> THEN <<>>
  ELSE LET absolute == absoluteOf(links[1].href)
       IN  IF absolute # Absent /\ ~absolute[1].dt THEN absolute[1].s
           ELSE firstExternal(Tail(links))

scrapeCard(out, el, z) ==
  IF Len(out) >= perSource THEN out
  ELSE
    LET internalHref ==
          IF el.policy = Absent THEN <<>>
          ELSE IF el.policy[1].href.s # <<>> /\ ~el.policy[1].href.http
               THEN prefixed(el.policy[1].href).s
               ELSE el.policy[1].href.s
        extHref == firstExternal(el.links)
        title ==
          orElse(IF el.policy = Absent THEN <<>> ELSE el.policy[1].text,
                 IF el.links = <<>> THEN <<>> ELSE el.links[1].text)
        dt == parseDate(el.datetime, z)
        url == orElse(internalHref, extHref)
    IN  IF title = <<>> \/ url = <<>> THEN out
        ELSE Append(out,
               [title |-> title,
                url |-> url,
                originalUrl |-> IF internalHref # <<>> /\ extHref # <<>>
                                THEN Some(extHref) ELSE Absent,
                source |-> <<"Donor Tracker - Policy Updates">>,
                publishedISO |-> IF dt # Absent THEN toISO(dt[1], z) ELSE Absent,
                text |-> title \o <<" ">> \o LabelDonorTracker])

RECURSIVE scrape(_, _, _)
scrape(out, cards, z) ==
  IF cards = <<>> THEN out
  ELSE scrape(scrapeCard(out, cards[1], z), Tail(cards), z)

---------------------------------------------------------------------------
(* Responses of the remote side *)

Garbage == [kind |-> "garbage"]
JsonBody(data) == [kind |-> "json", data |-> data]
FeedBody(title, items) == [kind |-> "feed", title |-> title, items |-> items]
HtmlBody(cards) == [kind |-> "html", cards |-> cards]

RecordFull ==
  [title |-> TitleFunding, url |-> <<"https://reliefweb.int/report/1">>,
   created |-> RawDate(Some(FallBack), Absent, Absent), original |-> NoDate]
RecordBare ==
  [title |-> <<>>, url |-> <<>>,
   created |-> NoDate, original |-> RawDate(Absent, Absent, Absent)]

EntryFull ==
  [title |-> TitleRegion, link |-> <<"https://example.org/a">>, guid |-> <<"a-1">>,
   isoDate |-> RawDate(Some(FallBack - MsPerHour \div 2), Absent, Absent),
   pubDate |-> RawDate(Absent, Some(FallBack - MsPerHour \div 2), Absent),
   published |-> NoDate, updated |-> NoDate]
EntryBare ==
  [title |-> <<>>, link |-> <<>>, guid |-> <<>>,
   isoDate |-> NoDate, pubDate |-> NoDate, published |-> NoDate, updated |-> NoDate]

HrefPolicy == [s |-> <<"/policy-updates/uk-cuts-aid">>, http |-> FALSE, slash |-> TRUE, dt |-> FALSE]
HrefExternal == [s |-> <<"https://www.gov.uk/news/1">>, http |-> TRUE, slash |-> FALSE, dt |-> FALSE]
HrefAnchor == [s |-> <<"#top">>, http |-> FALSE, slash |-> FALSE, dt |-> FALSE]

CardFull ==
  [policy |-> Some([href |-> HrefPolicy, text |-> TitleFunding]),
   links |-> << [href |-> HrefPolicy, text |-> TitleFunding],
                [href |-> HrefExternal, text |-> TitlePlain] >>,
   datetime |-> RawDate(Some(FallBack), Absent, Absent)]
CardTitleOnly ==
  [policy |-> Absent,
   links |-> << [href |-> HrefAnchor, text |-> TitleRegion] >>,
   datetime |-> NoDate]

Bodies ==
  { Garbage,
    JsonBody(Absent), JsonBody(Some(<<RecordFull>>)),
    JsonBody(Some(<<RecordFull, RecordBare>>)),
    FeedBody(FeedTitle, <<EntryFull, EntryBare>>), FeedBody(<<>>, <<>>),
    HtmlBody(<<CardFull, CardTitleOnly>>), HtmlBody(<<CardTitleOnly>>) }

\* what one fetch can end with: a rejection (network error), a non-2xx
\* answer, or a 2xx answer with some body
Responses ==
  { [rejected |-> TRUE, ok |-> FALSE, status |-> "", body |-> Garbage],
    [rejected |-> FALSE, ok |-> FALSE, status |-> "500", body |-> Garbage] }
  \cup { [rejected |-> FALSE, ok |-> TRUE, status |-> "200", body |-> b] : b \in Bodies }

---------------------------------------------------------------------------
(* The dispatcher: one async callback per source (lines 442-460) *)

entryUrl(entry) == IF entry.isString THEN entry.value ELSE entry.url

\* the state of a callback: it awaits a fetch ("pending"), has returned
\* ("fulfilled") or has thrown past its catch block ("rejected")
\* (requests, answer, yields, parsed and error are history: the URLs fetched
\* so far, the status of the last answer, the number of items each answer
\* gave the strategy, whether parser.parseString made a feed of each answer,
\* the message of the exception that was caught)
invalidUrl(url) ==
  [url |-> url, strategy |-> "none", candidates |-> <<>>, k |-> 0,
   requests |-> <<>>, answer |-> "", yields |-> <<>>, parsed |-> <<>>,
   error |-> Absent,
   status |-> "pending", value |-> <<>>]
awaiting(url, strategy, candidates) ==
  [url |-> url, strategy |-> strategy, candidates |-> candidates, k |-> 1,
   requests |-> <<candidates[1]>>, answer |-> "", yields |-> <<>>,
   parsed |-> <<>>, error |-> Absent,
   status |-> "pending", value |-> <<>>]

\* (no catch block: the exception leaves the callback)
uncaught(s, message) ==
  [s EXCEPT !.status = "rejected", !.error = Some(message)]

\* the catch block of the callback (lines 450-458)
caught(s, message) ==
  [s EXCEPT !.status = "fulfilled", !.value = <<sentinel(s.url, message)>>,
            !.error = Some(message)]
returned(s, chunk) == [s EXCEPT !.status = "fulfilled", !.value = chunk]

\* (the alternates are tried before the configured URL)
rssCandidatesAlternatesFirst(url) ==
  IF hostname(url) # Absent /\ includes(hostname(url)[1], SubTNH)
  THEN <<UrlTNHRss, UrlTNHAll, UrlTNHBare, url>>
  ELSE <<url>>

\* the candidate list of fetchRSS (lines 395-403)
rssCandidates(url) ==
  IF hostname(url) # Absent /\ includes(hostname(url)[1], SubTNH)
  THEN <<url, UrlTNHRss, UrlTNHAll, UrlTNHBare>>
  ELSE <<url>>

\* (the listing host is tested before the report host)
startSourceListingFirst(entry) ==
  LET url == entryUrl(entry)
      host == hostname(url)
  IN  IF host = Absent THEN caught(invalidUrl(url), <<"Invalid URL">>)
      ELSE IF includes(host[1], SubDonorTracker)
        THEN awaiting(url, "fetchDonorTracker", <<UrlDTUnderscore, UrlDTHyphen>>)
      ELSE IF includes(host[1], SubReliefWeb)
        THEN awaiting(url, "fetchReliefWeb", <<UrlReliefWebApi \o <<ToString(perSource)>>>>)
      ELSE awaiting(url, "fetchRSS", rssCandidates(url))

\* the callback up to its first await (lines 444-449)
startSource(entry) ==
  LET url == entryUrl(entry)
      host == hostname(url)
  IN  IF host = Absent THEN caught(invalidUrl(url), <<"Invalid URL">>)
      ELSE IF includes(host[1], SubReliefWeb)
        THEN awaiting(url, "fetchReliefWeb", <<UrlReliefWebApi \o <<ToString(perSource)>>>>)
      ELSE IF includes(host[1], SubDonorTracker)
        THEN awaiting(url, "fetchDonorTracker", <<UrlDTUnderscore, UrlDTHyphen>>)
      ELSE awaiting(url, "fetchRSS", rssCandidates(url))

\* the loops of fetchDonorTracker and fetchRSS go on to the next candidate,
\* or leave the loop and throw
nextCandidate(s, message) ==
  IF s.k < Len(s.candidates)
  THEN [s EXCEPT !.k = s.k + 1,
                 !.requests = Append(s.requests, s.candidates[s.k + 1])]
  ELSE caught(s, message)

\* fetchReliefWeb from the answer of its fetch on (lines 306-321)
resumeReliefWeb(s, r) ==
  IF r.rejected THEN caught(s, <<"fetch failed">>)
  ELSE IF ~r.ok THEN caught(s, <<"ReliefWeb API HTTP ", r.status>>)
  ELSE IF r.body.kind # "json" THEN caught(s, <<"Unexpected token">>)
  ELSE LET data == IF r.body.data = Absent THEN <<>> ELSE r.body.data[1]
       IN  returned(s, [i \in 1..Len(data) |-> reliefWebItem(data[i], zone)])

\* (a loop that goes on to the next candidate after a page with items)
resumeDonorTrackerEveryPage(s, r) ==
  LET out == IF r.body.kind = "html" THEN scrape(<<>>, r.body.cards, zone) ELSE <<>>
  IN  IF ~r.rejected /\ r.ok /\ Len(out) > 0 /\ s.k = Len(s.candidates)
      THEN returned(s, out)
      ELSE nextCandidate(s, <<"DonorTracker scrape failed">>)

\* one round of the loop of fetchDonorTracker (lines 330-390)
resumeDonorTracker(s, r) ==
  LET out == IF r.body.kind = "html" THEN scrape(<<>>, r.body.cards, zone) ELSE <<>>
  IN  IF ~r.rejected /\ r.ok /\ Len(out) > 0 THEN returned(s, out)
      ELSE nextCandidate(s, <<"DonorTracker scrape failed">>)

\* (a loop that goes on to the next candidate after a feed without entries)
resumeRSSNeedsItems(s, r) ==
  IF ~r.rejected /\ r.ok /\ r.body.kind = "feed" /\ r.body.items # <<>>
  THEN LET feed == r.body
           title == orElse(feed.title, hostname(s.candidates[s.k])[1])
           items == slice(feed.items, perSource)
       IN  returned(s, [i \in 1..Len(items) |-> rssItem(items[i], title, zone)])
  ELSE nextCandidate(s, <<"RSS failed for ">> \o s.url)

\* one round of the loop of fetchRSS (lines 405-424)
resumeRSS(s, r) ==
  IF ~r.rejected /\ r.ok /\ r.body.kind = "feed"
  THEN LET feed == r.body
           title == orElse(feed.title, hostname(s.candidates[s.k])[1])
           items == slice(feed.items, perSource)
       IN  returned(s, [i \in 1..Len(items) |-> rssItem(items[i], title, zone)])
  ELSE nextCandidate(s, <<"RSS failed for ">> \o s.url)

\* the number of items the strategy of s draws from the answer r
yielded(s, r) ==
  IF r.rejected \/ ~r.ok THEN 0
  ELSE CASE s.strategy = "fetchDonorTracker" ->
              IF r.body.kind = "html" THEN Len(scrape(<<>>, r.body.cards, zone)) ELSE 0
         [] s.strategy = "fetchReliefWeb" ->
              IF r.body.kind = "json" /\ r.body.data # Absent
              THEN Len(r.body.data[1]) ELSE 0
         [] OTHER ->
              IF r.body.kind = "feed" THEN Len(slice(r.body.items, perSource)) ELSE 0

\* whether the feed parser of the strategy of s makes a feed of the answer r
\* (fetchReliefWeb and fetchDonorTracker never call it)
parsedAsFeed(s, r) ==
  /\ s.strategy \in {"fetchRSS", "parseURL"}
  /\ ~r.rejected
  /\ r.ok
  /\ r.body.kind = "feed"

answered(s, r) ==
  [s EXCEPT !.answer = IF r.rejected THEN "rejected" ELSE r.status,
            !.yields = Append(@, yielded(s, r)),
            !.parsed = Append(@, parsedAsFeed(s, r))]

resume(s, r) ==
  CASE s.strategy = "fetchReliefWeb" -> resumeReliefWeb(answered(s, r), r)
    [] s.strategy = "fetchDonorTracker" -> resumeDonorTracker(answered(s, r), r)
    [] OTHER -> resumeRSS(answered(s, r), r)

\* (a flat list that ends at the first failed source)
RECURSIVE flattenUntilError(_)
flattenUntilError(chunks) ==
  IF chunks = <<>> THEN <<>>
  ELSE IF chunks[1] # <<>> /\ chunks[1][1].source = <<"error">> THEN <<>>
  ELSE chunks[1] \o flattenUntilError(Tail(chunks))

\* Array.prototype.flat over the chunks
RECURSIVE flatten(_)
flatten(chunks) ==
  IF chunks = <<>> THEN <<>> ELSE chunks[1] \o flatten(Tail(chunks))

\* (the values in the order the callbacks settled)
promiseAllBySettling(callbacks) ==
  [k \in 1..Len(callbacks) |-> callbacks[order[k]].value]

\* the value of Promise.all over fulfilled callbacks: their values, by index
promiseAll(callbacks) == [i \in 1..Len(callbacks) |-> callbacks[i].value]

\* the answer of the top-level catch (line 487)
errorResponse(message) ==
  [status |-> 200, news |-> <<>>, count |-> 0, timezone |-> Absent,
   error |-> Some(message)]

\* loadConfig (lines 291-301) returns the document or throws
LoadConfig ==
  /\ pc = "load"
  /\ \/ /\ pc' = "dispatch"
        /\ res' = res
     \/ /\ pc' = "done"
        /\ res' = Some(errorResponse(<<"Error: Could not load sources.json.">>))
  /\ UNCHANGED <<handler, page, pj, scraped, cfg, src, order, results, flat, fi, filtered, visits, clock>>

\* sources.map(...): every callback runs up to its first await
StartDispatch ==
  /\ pc = "dispatch"
  /\ src' = [i \in 1..Len(sources) |-> startSource(sources[i])]
  /\ order' = SelectSeq([i \in 1..Len(sources) |-> i],
                        LAMBDA i : startSource(sources[i]).status # "pending")
  /\ pc' = "await"
  /\ UNCHANGED <<handler, page, pj, scraped, cfg, results, flat, fi, filtered, visits, clock, res>>

\* the fetch of source i is answered and its callback runs to the next await
FetchReturns(i) ==
  /\ pc = "await"
  /\ src[i].status = "pending"
  /\ src[i].answer # "never"
  /\ \E r \in Responses :
       /\ src' = [src EXCEPT ![i] = resume(src[i], r)]
       /\ order' = IF src'[i].status # "pending" THEN Append(order, i) ELSE order
  /\ UNCHANGED <<handler, page, pj, scraped, cfg, pc, results, flat, fi, filtered, visits, clock, res>>

\* the fetch of source i is never answered: fetch is called without a signal
\* or a timeout (lines 306, 332, 407), so its promise stays pending
FetchHangs(i) ==
  /\ pc = "await"
  /\ src[i].status = "pending"
  /\ src[i].answer # "never"
  /\ src' = [src EXCEPT ![i].answer = "never"]
  /\ UNCHANGED <<handler, page, pj, scraped, cfg, pc, order, results, flat, fi,
                 filtered, visits, clock, res>>

\* Promise.all settles: it rejects with the first rejected callback, into
\* the top-level catch, or resolves once every callback is fulfilled
AwaitAll ==
  /\ pc = "await"
  /\ IF \E i \in 1..Len(src) : src[i].status = "rejected"
     THEN /\ pc' = "done"
          /\ res' = Some(errorResponse(<<"TypeError">>))
          /\ UNCHANGED <<results, flat>>
     ELSE /\ \A i \in 1..Len(src) : src[i].status = "fulfilled"
          /\ results' = promiseAll(src)
          /\ flat' = withIds(flatten(results'))
          /\ pc' = "filter"
          /\ res' = res
  /\ UNCHANGED <<handler, page, pj, scraped, cfg, src, order, fi, filtered, visits, clock>>

---------------------------------------------------------------------------
(* The handler from loadConfig to the flat list *)

StringEntry(url) == [isString |-> TRUE, value |-> url, url |-> UrlUndefined]
ObjectEntry(url) == [isString |-> FALSE, value |-> <<>>, url |-> url]

\* entries of news.sources: URL strings and {url} objects, among them an
\* object without url and a string that new URL cannot parse
SourceEntries ==
  { StringEntry(UrlReliefWeb), ObjectEntry(UrlDonorTracker),
    StringEntry(UrlGuardian), ObjectEntry(UrlTNH), StringEntry(UrlBoth),
    StringEntry(UrlUnparseable), ObjectEntry(UrlUndefined) }

DispatchConfigs ==
  { [timezone |-> "Europe/Berlin", maxAgeDays |-> Absent,
     regions |-> [isArray |-> FALSE, list |-> <<>>],
     news |-> [perSource |-> p, sources |-> l]] :
       p \in {Some(1)},
       l \in UNION { [1..n -> SourceEntries] : n \in 0..MaxSources } }

InitDispatch ==
  /\ handler = "src/api/headlines.js"
  /\ page = <<>>
  /\ pj = 1
  /\ scraped = <<>>
  /\ cfg \in DispatchConfigs
  /\ pc = "load"
  /\ src = <<>>
  /\ order = <<>>
  /\ results = <<>>
  /\ flat = <<>>
  /\ fi = 1
  /\ filtered = <<>>
  /\ visits = <<>>
  /\ clock = StartClock
  /\ res = Absent

NextDispatch ==
  \/ LoadConfig
  \/ StartDispatch
  \/ \E i \in 1..Len(src) : FetchReturns(i)
  \/ AwaitAll

SpecDispatch == InitDispatch /\ [][NextDispatch]_vars

---------------------------------------------------------------------------
(* Filtering and ranking started on a given flat list *)

\* configurations: zone, maxAgeDays and regions as sources.json may set them
RankConfigs ==
  { [timezone |-> "", maxAgeDays |-> Absent,
     regions |-> [isArray |-> TRUE, list |-> <<>>],
     news |-> [perSource |-> Absent, sources |-> <<>>]],
    [timezone |-> "Europe/Berlin", maxAgeDays |-> Some(9),
     regions |-> [isArray |-> TRUE, list |-> <<RegionSudan, RegionMali>>],
     news |-> [perSource |-> Absent, sources |-> <<>>]] }

\* a normalized item as the strategies build it (lines 414-420)
Item(title, label, at, z) ==
  [title |-> title, url |-> "https://example.org/a", source |-> label,
   publishedISO |-> IF at = Absent THEN Absent ELSE toISO(at[1], z),
   text |-> title \o <<" ">> \o label, originalUrl |-> Absent]

\* title and publish instant of the items the flat list is drawn from
RankShapes ==
  { <<TitleFunding, Some(FallBack - MsPerHour \div 2)>>,
    <<TitleFunding, Absent>>,
    <<TitleFunding, Some(StartClock - 7 * MsPerDay)>>,
    <<TitleFunding, Some(StartClock - 8 * MsPerDay)>>,
    <<TitleRegion, Some(FallBack)>>,
    <<TitleRegion, Absent>>,
    <<TitleCustom, Some(FallBack - 9 * MsPerDay)>> }

RankItems(z) == { Item(s[1], FeedTitle, s[2], z) : s \in RankShapes }

InitRank ==
  /\ handler = "src/api/headlines.js"
  /\ page = <<>>
  /\ pj = 1
  /\ scraped = <<>>
  /\ cfg \in RankConfigs
  /\ pc = "filter"
  /\ src = <<>>
  /\ order = <<>>
  /\ results = <<>>
  /\ \E n \in 0..MaxItems :
       flat \in { withIds(l) : l \in [1..n -> RankItems(zone)] }
  /\ fi = 1
  /\ filtered = <<>>
  /\ visits = <<>>
  /\ clock = StartClock
  /\ res = Absent

NextRank == FilterItem \/ SortFiltered \/ Respond

SpecRank == InitRank /\ [][NextRank]_vars

---------------------------------------------------------------------------
(* The older handlers: src/unnamed/part_000 answers with the flat list of  *)
(* all items, src/unnamed/part_001 filters and ranks it.  Both fetch every *)
(* source with parser.parseURL.                                            *)

FileHeadlines == "src/api/headlines.js"
FilePart000 == "src/unnamed/part_000"
FilePart001 == "src/unnamed/part_001"

\* the object part_000 builds from one feed entry (lines 53-58)
dumpItem(it, title) ==
  [title |-> orElse(it.title, NoTitle),
   url |-> orElse(it.link, it.guid),
   source |-> title,
   published |-> orElseDate(it.isoDate, orElseDate(it.pubDate, it.published))]

\* the object part_001 builds from one feed entry (lines 135-143)
olderItem(it, feed, title, z) ==
  LET published ==
        parseDate(orElseDate(it.isoDate,
                    orElseDate(it.pubDate, orElseDate(it.published, it.updated))), z)
  IN  [title |-> orElse(it.title, NoTitle),
       url |-> orElse(it.link, it.guid),
       source |-> title,
       publishedISO |-> IF published # Absent THEN toISO(published[1], z) ELSE Absent,
       text |-> it.title \o <<" ">> \o feed.title,
       originalUrl |-> Absent]

\* the objects the catch blocks build (part_000 lines 60-67, part_001 lines
\* 146-152)
dumpSentinel(url) ==
  [title |-> <<"Failed to fetch: ">> \o url, url |-> <<>>,
   source |-> <<"error">>, published |-> NoDate]
olderSentinel(url) ==
  [title |-> <<"Failed to fetch: ">> \o url, url |-> <<>>,
   source |-> <<"error">>, publishedISO |-> Absent, text |-> TextError,
   originalUrl |-> Absent]

\* the catch block of the callback: the exception is dropped
caughtOlder(s, message) ==
  [s EXCEPT !.status = "fulfilled",
            !.value = << IF handler = FilePart000 THEN dumpSentinel(s.url)
                         ELSE olderSentinel(s.url) >>,
            !.error = Some(message)]

\* the callback up to its await: parser.parseURL(undefined) throws at once
startParseURL(entry) ==
  LET url == entryUrl(entry)
  IN  IF url = UrlUndefined
      THEN caughtOlder(invalidUrl(url), <<"Cannot read properties of undefined">>)
      ELSE awaiting(url, "parseURL", <<url>>)

\* the callback from the answer of parser.parseURL on: a rejection (network
\* error or the 15 s timeout of the parser), a non-2xx status or a body that
\* is no feed throw; `new URL(url).host` throws for a URL that does not parse
resumeParseURL(s, r) ==
  IF r.rejected THEN caughtOlder(s, <<"request failed">>)
  ELSE IF ~r.ok THEN caughtOlder(s, <<"Status code ", r.status>>)
  ELSE IF r.body.kind # "feed" THEN caughtOlder(s, <<"Feed not recognized">>)
  ELSE LET feed == r.body
           items == slice(feed.items, perSource)
       IN  IF items # <<>> /\ feed.title = <<>> /\ hostname(s.url) = Absent
           THEN caughtOlder(s, <<"Invalid URL">>)
           ELSE LET title == IF feed.title # <<>> \/ items = <<>> THEN feed.title
                             ELSE hostname(s.url)[1]
                IN  returned(s, [i \in 1..Len(items) |->
                                   IF handler = FilePart000
                                   THEN dumpItem(items[i], title)
                                   ELSE olderItem(items[i], feed, title, zone)])

\* the answer of the top-level catch (part_000 line 75, part_001 line 185)
errorStatus(message) == [status |-> 500, error |-> Some(message)]

\* the answer of part_000 (line 73)
dumpResponse(list) ==
  [status |-> 200, news |-> list, count |-> Len(list), timezone |-> Absent,
   error |-> Absent]

\* loadConfig (part_000 lines 17-39, part_001 lines 85-110) returns the
\* document or throws after its last fallback
LoadConfigOlder ==
  /\ pc = "load"
  /\ handler # FileHeadlines
  /\ \/ /\ pc' = "dispatch"
        /\ res' = res
     \/ /\ pc' = "done"
        /\ res' = Some(errorStatus(
             <<"Error: Could not load sources.json from disk, GitHub Raw, or site.">>))
  /\ UNCHANGED <<handler, page, pj, scraped, cfg, src, order, results, flat,
                 fi, filtered, visits, clock>>

\* sources.map(...): every callback runs up to its await
StartParseURL ==
  /\ pc = "dispatch"
  /\ handler # FileHeadlines
  /\ src' = [i \in 1..Len(sources) |-> startParseURL(sources[i])]
  /\ order' = SelectSeq([i \in 1..Len(sources) |-> i],
                        LAMBDA i : startParseURL(sources[i]).status # "pending")
  /\ pc' = "await"
  /\ UNCHANGED <<handler, page, pj, scraped, cfg, results, flat, fi, filtered,
                 visits, clock, res>>

\* parser.parseURL of source i settles and its callback returns
ParseURLReturns(i) ==
  /\ pc = "await"
  /\ handler # FileHeadlines
  /\ src[i].status = "pending"
  /\ \E r \in Responses :
       /\ src' = [src EXCEPT ![i] = resumeParseURL(answered(src[i], r), r)]
       /\ order' = Append(order, i)
  /\ UNCHANGED <<handler, page, pj, scraped, cfg, pc, results, flat, fi,
                 filtered, visits, clock, res>>

\* Promise.all resolves; part_000 answers with the flat list, part_001 goes
\* on to filter it
AwaitOlder ==
  /\ pc = "await"
  /\ handler # FileHeadlines
  /\ \A i \in 1..Len(src) : src[i].status = "fulfilled"
  /\ results' = promiseAll(src)
  /\ flat' = withIds(flatten(results'))
  /\ IF handler = FilePart000
     THEN pc' = "done" /\ res' = Some(dumpResponse(flat'))
     ELSE pc' = "filter" /\ res' = res
  /\ UNCHANGED <<handler, page, pj, scraped, cfg, src, order, fi, filtered,
                 visits, clock>>

\* configurations of the older handlers: the report feed of ReliefWeb, a
\* feed, an entry without url and a string that is no URL
OlderEntries ==
  { StringEntry(UrlReliefWeb), ObjectEntry(UrlGuardian),
    ObjectEntry(UrlUndefined), StringEntry(UrlUnparseable) }

OlderConfigs ==
  { [timezone |-> "", maxAgeDays |-> Absent,
     regions |-> [isArray |-> FALSE, list |-> <<>>],
     news |-> [perSource |-> p, sources |-> l]] :
       p \in {Absent, Some(5)},
       l \in UNION { [1..n -> OlderEntries] : n \in 0..MaxSources } }

InitOlder ==
  /\ handler \in {FilePart000, FilePart001}
  /\ page = <<>>
  /\ pj = 1
  /\ scraped = <<>>
  /\ cfg \in OlderConfigs
  /\ pc = "load"
  /\ src = <<>>
  /\ order = <<>>
  /\ results = <<>>
  /\ flat = <<>>
  /\ fi = 1
  /\ filtered = <<>>
  /\ visits = <<>>
  /\ clock = StartClock
  /\ res = Absent

NextOlder ==
  \/ LoadConfigOlder
  \/ StartParseURL
  \/ \E i \in 1..Len(src) : ParseURLReturns(i)
  \/ AwaitOlder
  \/ FilterItem
  \/ SortFiltered
  \/ Respond

SpecOlder == InitOlder /\ [][NextOlder]_vars
---------------------------------------------------------------------------
(* The whole handler of src/api/headlines.js, from loadConfig to the       *)
(* response                                                                *)

RegionError == <<"E", "r", "r", "o", "r">>

\* a feed, the listing page and a string that is no URL
PipelineEntries ==
  { StringEntry(UrlGuardian), ObjectEntry(UrlDonorTracker),
    StringEntry(UrlUnparseable) }

\* the configured region list names the text of the sentinel
PipelineConfigs ==
  { [timezone |-> "Europe/Berlin", maxAgeDays |-> Absent,
     regions |-> [isArray |-> TRUE, list |-> <<RegionError, RegionMali>>],
     news |-> [perSource |-> Absent, sources |-> l]] :
       l \in UNION { [1..n -> PipelineEntries] : n \in 0..MaxSources } }

Init ==
  /\ handler = FileHeadlines
  /\ page = <<>>
  /\ pj = 1
  /\ scraped = <<>>
  /\ cfg \in PipelineConfigs
  /\ pc = "load"
  /\ src = <<>>
  /\ order = <<>>
  /\ results = <<>>
  /\ flat = <<>>
  /\ fi = 1
  /\ filtered = <<>>
  /\ visits = <<>>
  /\ clock = StartClock
  /\ res = Absent

Next ==
  \/ LoadConfig
  \/ StartDispatch
  \/ \E i \in 1..Len(src) : FetchReturns(i)
  \/ \E i \in 1..Len(src) : FetchHangs(i)
  \/ AwaitAll
  \/ FilterItem
  \/ SortFiltered
  \/ Respond

Spec == Init /\ [][Next]_vars

\* the handler runs on whenever it can take a step; whether a fetch is
\* answered is up to the remote side
SpecLive == Spec /\ WF_vars(Next)
---------------------------------------------------------------------------
(* The each callback of fetchDonorTracker, started on a given page *)

\* a card with a policy link without text, a card with one external link,
\* a card without links
CardLinkOnly ==
  [policy |-> Some([href |-> HrefPolicy, text |-> <<>>]),
   links |-> << [href |-> HrefPolicy, text |-> <<>>] >>,
   datetime |-> NoDate]
CardExternal ==
  [policy |-> Absent,
   links |-> << [href |-> HrefExternal, text |-> TitlePlain] >>,
   datetime |-> RawDate(Absent, Absent, Some(FallBack))]
CardEmpty == [policy |-> Absent, links |-> <<>>, datetime |-> NoDate]

CardShapes == {CardFull, CardTitleOnly, CardLinkOnly, CardExternal, CardEmpty}

ScrapeConfigs ==
  { [timezone |-> "Europe/Berlin", maxAgeDays |-> Absent,
     regions |-> [isArray |-> FALSE, list |-> <<>>],
     news |-> [perSource |-> p, sources |-> <<ObjectEntry(UrlDonorTracker)>>]] :
       p \in {Absent, Some(2)} }

\* one call of the each callback (lines 338-385)
ScrapeCard ==
  /\ pc = "scrape"
  /\ pj <= Len(page)
  /\ scraped' = scrapeCard(scraped, page[pj], zone)
  /\ pj' = pj + 1
  /\ UNCHANGED <<handler, page, cfg, pc, src, order, results, flat, fi,
                 filtered, visits, clock, res>>

\* after the last card: `if (out.length) return out`, or the loop goes on
\* (line 387)
ScrapeEnd ==
  /\ pc = "scrape"
  /\ pj > Len(page)
  /\ pc' = IF Len(scraped) > 0 THEN "returned" ELSE "continue"
  /\ UNCHANGED <<handler, page, pj, scraped, cfg, src, order, results, flat,
                 fi, filtered, visits, clock, res>>

InitScrape ==
  /\ handler = FileHeadlines
  /\ \E n \in 0..MaxCards : page \in [1..n -> CardShapes]
  /\ pj = 1
  /\ scraped = <<>>
  /\ cfg \in ScrapeConfigs
  /\ pc = "scrape"
  /\ src = <<>>
  /\ order = <<>>
  /\ results = <<>>
  /\ flat = <<>>
  /\ fi = 1
  /\ filtered = <<>>
  /\ visits = <<>>
  /\ clock = StartClock
  /\ res = Absent

NextScrape == ScrapeCard \/ ScrapeEnd

SpecScrape == InitScrape /\ [][NextScrape]_vars
---------------------------------------------------------------------------
(* parseDate, applied to the raw date strings of a list of items *)

\* the instants the three parsers read from a string, where they differ:
\* fromISO and fromRFC2822 read a time without offset in the zone given,
\* new Date(s) reads it in the zone of the server or in UTC
Reading ==
  [iso |-> FallBack, rfc2822 |-> FallBack + MsPerHour, js |-> FallBack + 2 * MsPerHour]

\* raw date strings: the empty string, null, and a string for every
\* combination of parsers that accept it
DateStrings ==
  { NoDate, NullDate }
  \cup { RawDate(a, b, c) : a \in {Absent, Some(Reading.iso)},
                            b \in {Absent, Some(Reading.rfc2822)},
                            c \in {Absent, Some(Reading.js)} }

ParseConfigs ==
  { [timezone |-> z, maxAgeDays |-> Absent,
     regions |-> [isArray |-> FALSE, list |-> <<>>],
     news |-> [perSource |-> Absent, sources |-> <<>>]] :
       z \in {"", "Europe/Berlin"} }

\* one call of parseDate, as the map callbacks of the strategies make it for
\* each item (lines 313, 372, 413)
ParseDate ==
  /\ pc = "parse"
  /\ pj <= Len(page)
  /\ scraped' = Append(scraped, parseDate(page[pj], zone))
  /\ pj' = pj + 1
  /\ UNCHANGED <<handler, page, cfg, pc, src, order, results, flat, fi,
                 filtered, visits, clock, res>>

InitParse ==
  /\ handler = FileHeadlines
  /\ \E n \in 1..MaxItems : page \in [1..n -> DateStrings]
  /\ pj = 1
  /\ scraped = <<>>
  /\ cfg \in ParseConfigs
  /\ pc = "parse"
  /\ src = <<>>
  /\ order = <<>>
  /\ results = <<>>
  /\ flat = <<>>
  /\ fi = 1
  /\ filtered = <<>>
  /\ visits = <<>>
  /\ clock = StartClock
  /\ res = Absent

SpecParse == InitParse /\ [][ParseDate]_vars
---------------------------------------------------------------------------
(* The filter under the values `regions` can have in the configuration *)

\* `regions` absent, a string instead of a list, an empty list, and lists
\* of one word that is not, and one that is, in the default list
RegionConfigs ==
  { [timezone |-> "", maxAgeDays |-> Absent,
     regions |-> r,
     news |-> [perSource |-> Absent, sources |-> <<>>]] :
       r \in { [isArray |-> FALSE, list |-> <<>>],
               [isArray |-> FALSE, list |-> <<RegionSudan>>],
               [isArray |-> TRUE, list |-> <<>>],
               [isArray |-> TRUE, list |-> <<RegionSudan>>],
               [isArray |-> TRUE, list |-> <<RegionMali>>] } }

\* items published within every window, whose text names a region of the
\* default list or a region outside it
RegionItems(z) ==
  { Item(t, FeedTitle, Some(FallBack), z) : t \in {TitleRegion, TitleCustom} }

InitRegion ==
  /\ handler = FileHeadlines
  /\ page = <<>>
  /\ pj = 1
  /\ scraped = <<>>
  /\ cfg \in RegionConfigs
  /\ pc = "filter"
  /\ src = <<>>
  /\ order = <<>>
  /\ results = <<>>
  /\ \E n \in 0..MaxItems :
       flat \in { withIds(l) : l \in [1..n -> RegionItems(zone)] }
  /\ fi = 1
  /\ filtered = <<>>
  /\ visits = <<>>
  /\ clock = StartClock
  /\ res = Absent

SpecRegion == InitRegion /\ [][NextRank]_vars
---------------------------------------------------------------------------
(* Properties of the dispatcher *)

\* Promise.all has resolved and the handler goes on to the filter
Resolved == pc = "filter" /\ src # <<>>

\* the callback of source i ended in its catch block
failed(i) == src[i].status = "fulfilled" /\ src[i].error # Absent

\* C1: whichever sources fail and in whatever order the callbacks settle,
\* Promise.all yields one result per source, and result i is the value the
\* callback of source i returned.
C1_OneResultPerSource ==
  Resolved =>
    /\ Len(results) = Len(sources)
    /\ \A i \in 1..Len(sources) :
         /\ src[i].url = entryUrl(sources[i])
         /\ results[i] = src[i].value

\* the second source settled first, one source failed and one delivered items
C1_Witness ==
  /\ Resolved
  /\ order = <<2, 1>>
  /\ results[1] # results[2]
  /\ \E i \in 1..2 : failed(i)
  /\ \E i \in 1..2 : ~failed(i) /\ results[i] # <<>>

C4_ReliefWebHttpError ==
  \A i \in 1..Len(src) :
    ( /\ src[i].strategy = "fetchReliefWeb"
      /\ src[i].status = "fulfilled"
      /\ src[i].answer = "500" )
    => /\ src[i].value = <<>>
       /\ src[i].error = Absent


\* the strategy the host of a source URL selects
selected(host) ==
  IF includes(host, SubReliefWeb) THEN "fetchReliefWeb"
  ELSE IF includes(host, SubDonorTracker) THEN "fetchDonorTracker"
  ELSE "fetchRSS"

\* the URLs a strategy may fetch for the source URL url
fetchable(strategy, url) ==
  CASE strategy = "fetchReliefWeb" -> {UrlReliefWebApi \o <<ToString(perSource)>>}
    [] strategy = "fetchDonorTracker" -> {UrlDTUnderscore, UrlDTHyphen}
    [] strategy = "fetchRSS" -> {url, UrlTNHRss, UrlTNHAll, UrlTNHBare}
    [] OTHER -> {}

scraping(i) == src[i].strategy = "fetchDonorTracker"

\* C18: fetchDonorTracker fetches its candidate pages in their order, a
\* page only after every page before it was answered and gave no item, and
\* the first page that gives an item ends the loop: its items are the
\* result and no further page is fetched.
C18_CandidatesInOrder ==
  \A i \in 1..Len(src) :
    scraping(i) =>
      /\ src[i].candidates = <<UrlDTUnderscore, UrlDTHyphen>>
      /\ src[i].requests = SubSeq(src[i].candidates, 1, Len(src[i].requests))
      /\ Len(src[i].yields) =
           IF src[i].status = "pending" THEN Len(src[i].requests) - 1
           ELSE Len(src[i].requests)
      /\ \A k \in 1..Len(src[i].yields) :
           /\ k < Len(src[i].requests) => src[i].yields[k] = 0
           /\ src[i].yields[k] > 0 =>
                /\ src[i].status = "fulfilled"
                /\ ~failed(i)
                /\ Len(src[i].value) = src[i].yields[k]
      /\ (src[i].status = "fulfilled" /\ ~failed(i)) =>
           src[i].yields[Len(src[i].yields)] > 0

\* one source got its items from the first page and fetched no other,
\* another one got them from the second page after the first gave none
C18_Witness ==
  /\ Resolved
  /\ \E i \in 1..Len(src) :
       scraping(i) /\ ~failed(i) /\ src[i].requests = <<UrlDTUnderscore>>
  /\ \E i \in 1..Len(src) :
       scraping(i) /\ ~failed(i) /\ src[i].requests = <<UrlDTUnderscore, UrlDTHyphen>>

\* the error strings kept for source i
errorsOf(i) == IF src[i].error = Absent THEN <<>> ELSE <<src[i].error[1]>>

\* C19: when no candidate page gave an item, the result of fetchDonorTracker
\* is an empty list, with one error string per page it tried.
C19_EmptyWithErrors ==
  \A i \in 1..Len(src) :
    ( /\ scraping(i)
      /\ src[i].status = "fulfilled"
      /\ \A k \in 1..Len(src[i].yields) : src[i].yields[k] = 0 )
    => /\ src[i].value = <<>>
       /\ Len(errorsOf(i)) = Len(src[i].requests)

\* source i is fetched by fetchRSS
feeding(i) == src[i].strategy = "fetchRSS"

\* the alternate feed locations known for the host of url
alternates(url) ==
  IF includes(hostname(url)[1], SubTNH)
  THEN <<UrlTNHRss, UrlTNHAll, UrlTNHBare>>
  ELSE <<>>

C22_EachCandidateOnce ==
  \A i \in 1..Len(src) :
    /\ Len(src[i].requests) <= Len(src[i].candidates)
    /\ \A j \in 1..Len(src[i].requests) :
         \A k \in 1..Len(src[i].requests) :
           j # k => src[i].requests[j] # src[i].requests[k]

\* the items of source i that are no sentinel
itemsOf(i) ==
  { src[i].value[j] : j \in { j \in 1..Len(src[i].value) :
                                src[i].value[j].source # <<"error">> } }

\* C23: every item a strategy returned, the sentinel apart, has a non-empty
\* title, a non-empty _text and a non-empty url.
C23_ItemsComplete ==
  \A i \in 1..Len(src) :
    \A it \in itemsOf(i) :
      /\ it.title # <<>>
      /\ it.text # <<>>
      /\ it.url # <<>>

\* C26: in fetchRSS an answer the parser makes a feed without entries of
\* ends the loop: the result of the source is the empty list, nothing was
\* thrown and no later candidate is fetched.  In fetchDonorTracker a page
\* that gives no item does not end the loop: the next candidate is fetched,
\* and after the last one the strategy throws.
C26_EmptyFeedEmptyPage ==
  \A i \in 1..Len(src) :
    \A k \in 1..Len(src[i].yields) :
      src[i].yields[k] = 0 =>
        /\ (feeding(i) /\ src[i].parsed[k]) =>
             /\ src[i].status = "fulfilled"
             /\ src[i].value = <<>>
             /\ src[i].error = Absent
             /\ Len(src[i].requests) = k
        /\ scraping(i) =>
             IF k < Len(src[i].candidates)
             THEN Len(src[i].requests) > k
             ELSE failed(i) /\ src[i].value # <<>>

\* a feed without entries at the configured URL ended a source that has
\* alternates; a page without usable cards, answered with 200, was the last
\* of a listing source that failed
C26_Witness ==
  /\ Resolved
  /\ \E i \in 1..Len(src) :
       /\ feeding(i)
       /\ Len(src[i].candidates) = 4
       /\ src[i].requests = <<UrlTNH>>
       /\ src[i].parsed = <<TRUE>>
       /\ src[i].value = <<>>
  /\ \E i \in 1..Len(src) :
       /\ scraping(i)
       /\ src[i].yields = <<0, 0>>
       /\ src[i].answer = "200"
       /\ failed(i)
---------------------------------------------------------------------------
(* Properties of the relevance filter and the ranker *)

Done == pc = "done" /\ res # Absent
news == res[1].news

undated(it) == it.publishedISO = Absent
instantOf(it) == it.publishedISO[1] - it.publishedISO[2]

\* the eligibility rules, evaluated at the instant `now`
withinWindow(it, days, now) ==
  ~undated(it) /\ instantOf(it) >= minusDays(now, days, zone)
fundingEligible(it, now) == undated(it) \/ withinWindow(it, 7, now)
regionEligible(it, now) == withinWindow(it, maxAgeDays, now)
inclusion(it, funding, region, nowRegion, nowFunding) ==
  \/ funding /\ fundingEligible(it, nowFunding)
  \/ region /\ regionEligible(it, nowRegion)

\* positions of the output that hold element i of the flat list
occurrences(i) == { j \in 1..Len(news) : news[j].id = i }
included(i) == occurrences(i) # {}

\* element i matched a funding or donor term only, a region term only
fundingOnly(i) == visits[i].isFunding /\ ~visits[i].hasRegion
regionOnly(i) == visits[i].hasRegion /\ ~visits[i].isFunding

\* C5: the output holds an element of the flat list exactly when
\* (isFunding and fundingEligible) or (isRegional and regionEligible) holds
\* for it at the instants its two window tests read; a kept element occurs
\* once, with title, url, source and publish date unchanged, and every
\* output element comes from the flat list.
C5_InclusionPredicate ==
  Done =>
    /\ \A i \in 1..Len(flat) :
         Cardinality(occurrences(i)) =
           IF inclusion(flat[i], visits[i].isFunding, visits[i].hasRegion,
                        visits[i].nowRegion, visits[i].nowFunding)
           THEN 1 ELSE 0
    /\ \A j \in 1..Len(news) :
         /\ news[j].id \in 1..Len(flat)
         /\ news[j].title = flat[news[j].id].title
         /\ news[j].url = flat[news[j].id].url
         /\ news[j].source = flat[news[j].id].source
         /\ news[j].published = flat[news[j].id].publishedISO

C5_Witness ==
  /\ Done
  /\ Len(news) >= 2
  /\ Len(news) < Len(flat)

\* C6: an item that matches only a funding or donor term is in the output
\* exactly when it is undated or published within the 7 days before the
\* instant its funding test read, whatever maxAgeDays is; in particular it
\* is kept up to 6 days of age and dropped from 8 days on.
C6_FundingWindow ==
  Done =>
    \A i \in 1..Len(flat) :
      fundingOnly(i) =>
        /\ included(i) <=>
             \/ undated(flat[i])
             \/ instantOf(flat[i]) >= minusDays(visits[i].nowFunding, 7, zone)
        /\ ( /\ ~undated(flat[i])
             /\ instantOf(flat[i]) >= visits[i].nowFunding - 6 * MsPerDay ) => included(i)
        /\ ( /\ ~undated(flat[i])
             /\ instantOf(flat[i]) <= visits[i].nowFunding - 8 * MsPerDay ) => ~included(i)

\* a funding-only item older than maxAgeDays = 3 is kept, an 8-day-old one
\* is dropped
C6_Witness ==
  /\ Done
  /\ maxAgeDays = 3
  /\ \E i \in 1..Len(flat) :
       /\ fundingOnly(i) /\ ~undated(flat[i]) /\ included(i)
       /\ instantOf(flat[i]) < visits[i].nowRegion - 6 * MsPerDay
  /\ \E i \in 1..Len(flat) :
       /\ fundingOnly(i) /\ ~undated(flat[i]) /\ ~included(i)
       /\ instantOf(flat[i]) <= visits[i].nowFunding - 8 * MsPerDay

\* C7: an item that matches only a region term is in the output exactly
\* when it has a publish date that is no older than maxAgeDays at the
\* instant its region test read; without a date it is never in the output.
C7_RegionWindow ==
  Done =>
    \A i \in 1..Len(flat) :
      regionOnly(i) =>
        /\ included(i) <=>
             /\ ~undated(flat[i])
             /\ instantOf(flat[i]) >= minusDays(visits[i].nowRegion, maxAgeDays, zone)
        /\ undated(flat[i]) => ~included(i)

C7_Witness ==
  /\ Done
  /\ \E i \in 1..Len(flat) : regionOnly(i) /\ undated(flat[i]) /\ ~included(i)
  /\ \E i \in 1..Len(flat) : regionOnly(i) /\ ~undated(flat[i]) /\ included(i)

\* C8: in the ranked output no undated item precedes a dated one, and the
\* undated items are in the order they had in the flat list.
C8_UndatedLast ==
  Done =>
    \A a, b \in 1..Len(news) :
      a < b =>
        /\ news[a].published = Absent => news[b].published = Absent
        /\ (news[a].published = Absent /\ news[b].published = Absent)
             => news[a].id < news[b].id

\* two undated items were listed before a dated one in the flat list
C8_Witness ==
  /\ Done
  /\ \E i, j, k \in 1..Len(flat) :
       /\ i < j /\ j < k
       /\ included(i) /\ included(j) /\ included(k)
       /\ undated(flat[i]) /\ undated(flat[j]) /\ ~undated(flat[k])

\* C9: of two dated items in the ranked output the one listed first has the
\* later or the same publish instant.
C9_DescendingInstants ==
  Done =>
    \A a, b \in 1..Len(news) :
      (a < b /\ news[a].published # Absent /\ news[b].published # Absent)
        => news[a].published[1] - news[a].published[2]
             >= news[b].published[1] - news[b].published[2]

\* C10: the output of a run is the one that classifying every item against
\* one single evaluation instant yields.
C10_SingleInstant ==
  Done =>
    \E T \in StartClock..ClockLimit :
      \A i \in 1..Len(flat) :
        included(i) <=>
          inclusion(flat[i], visits[i].isFunding, visits[i].hasRegion, T, T)


---------------------------------------------------------------------------
(* Properties of the responses *)

\* C11: whatever goes wrong in a handler, its answer has status 200, and an
\* answer that carries an error has an empty item list and count 0.
C11_NeverErrorStatus ==
  res # Absent =>
    /\ res[1].status = 200
    /\ res[1].error # Absent =>
         /\ "news" \in DOMAIN res[1] /\ res[1].news = <<>>
         /\ "count" \in DOMAIN res[1] /\ res[1].count = 0

\* the handler answered after it dispatched its sources
Answered == Done /\ src # <<>>

\* index in the flat list of element j of the result of source i
RECURSIVE lengthBefore(_)
lengthBefore(i) == IF i = 1 THEN 0 ELSE lengthBefore(i - 1) + Len(results[i - 1])
position(i, j) == lengthBefore(i) + j

C13_EventuallyAnswers == <>(res # Absent)

\* C14: the result of every source holds at most perSource items, whatever
\* the strategy and whatever the remote side returned.
C14_PerSourceCap ==
  \A i \in 1..Len(src) :
    src[i].status = "fulfilled" => Len(src[i].value) <= perSource

\* the flat-list positions of the sentinels of the failed sources
sentinels == { position(i, 1) : i \in { k \in 1..Len(src) : failed(k) } }

\* C15 as stated: the sentinel of a failed source matches neither the
\* funding triggers nor the region words, whatever region list is
\* configured, and is never in the output.
C15_SentinelUnclassified ==
  Answered =>
    \A p \in sentinels :
      /\ ~visits[p].isFunding
      /\ ~visits[p].hasRegion
      /\ ~included(p)

\* C15 amended: the sentinel of a failed source is never in the output: it
\* matches no funding trigger and it has no publish date, so that it is not
\* region-eligible even when a configured region word occurs in its text.
C15_SentinelNeverListed ==
  Answered =>
    \A p \in sentinels :
      /\ ~visits[p].isFunding
      /\ undated(flat[p])
      /\ ~included(p)

\* a configured region word matched the sentinel of a failed source while an
\* item of another source is in the output
C15_Witness ==
  /\ Answered
  /\ \E p \in sentinels : visits[p].hasRegion
  /\ news # <<>>

---------------------------------------------------------------------------
(* Properties of the handler of src/unnamed/part_000 *)

\* the handler of part_000 answered a configuration of a report source
\* followed by a feed whose fetch or parse failed, with perSource = 5
DumpOfFailedFeed ==
  /\ handler = FilePart000
  /\ Done
  /\ perSource = 5
  /\ Len(src) = 2
  /\ src[1].url = UrlReliefWeb
  /\ src[2].url = UrlGuardian
  /\ failed(2)

\* the items of the answer that stem from source i
group(i) == { j \in 1..Len(news) : news[j].id \in { position(i, k) : k \in 1..Len(results[i]) } }

\* C16: the raw answer for [report source, failing feed] and perSource = 5
\* has one group per source; the group of the failing feed has no items and
\* a non-empty list of errors.
C16_RawGroups ==
  DumpOfFailedFeed =>
    /\ res[1].status = 200
    /\ group(2) = {}
    /\ res[1].error # Absent

---------------------------------------------------------------------------
(* Properties of the each callback of fetchDonorTracker *)

\* the card has a link text to take the title from; it has a policy link
\* or a link that leads off donortracker.org
usableTitle(el) ==
  \/ el.policy # Absent /\ el.policy[1].text # <<>>
  \/ el.links # <<>> /\ el.links[1].text # <<>>
usableLink(el) ==
  \/ el.policy # Absent /\ el.policy[1].href.s # <<>>
  \/ \E k \in 1..Len(el.links) :
       /\ absoluteOf(el.links[k].href) # Absent
       /\ ~absoluteOf(el.links[k].href)[1].dt

\* C20: a card is dropped only when it has neither a usable title nor a
\* usable link: up to perSource, every visited card that has one of the two
\* is an item of the result.
C20_DropOnlyBare ==
  Len(scraped) =
    Min(perSource,
        Cardinality({ k \in 1..(pj - 1) : usableTitle(page[k]) \/ usableLink(page[k]) }))

---------------------------------------------------------------------------
(* Properties of parseDate *)

\* what the parsers make of the string s, in the order ISO, RFC 2822,
\* Date, leaving out the invalid results
validReadings(s) ==
  SelectSeq(<<s.iso, s.rfc2822, s.js>>, LAMBDA d : d # Absent)

\* C24: parseDate returns null for an empty input and for a string none of
\* the three parsers reads; otherwise it returns the reading of the first of
\* fromISO, fromRFC2822 and new Date, in this order, that is valid.  What it
\* returns is null or a valid instant.
C24_FirstValidParse ==
  \A k \in 1..Len(scraped) :
    pc = "parse" =>
      LET s == page[k]
          d == scraped[k]
      IN  /\ s.empty => d = Absent
          /\ (~s.empty /\ validReadings(s) = <<>>) => d = Absent
          /\ (~s.empty /\ validReadings(s) # <<>>) => d = validReadings(s)[1]
          /\ d \in {Absent, Some(Reading.iso), Some(Reading.rfc2822), Some(Reading.js)}

\* a string only new Date reads, a string that fromRFC2822 and new Date
\* read differently, and null have been parsed
C24_Witness ==
  /\ pc = "parse"
  /\ Len(scraped) = 3
  /\ page = <<RawDate(Absent, Absent, Some(Reading.js)),
              RawDate(Absent, Some(Reading.rfc2822), Some(Reading.js)), NullDate>>
  /\ scraped = <<Some(Reading.js), Some(Reading.rfc2822), Absent>>

---------------------------------------------------------------------------
(* Properties of the region classification *)

\* the configuration supplies a non-empty list of region words
configured == cfg.regions.isArray /\ cfg.regions.list # <<>>

\* the text of the item names a word of the list, in whatever case
mentions(it, words) ==
  LET t == toLowerCase(it.text)
  IN  \E k \in 1..Len(words) : includes(t, toLowerCase(words[k]))

\* C25: with a non-empty list `regions` in the configuration an item is
\* regional exactly when its text names a word of that list, the case of
\* text and word aside, and the default list plays no part; with `regions`
\* absent, not a list or empty, an item is regional exactly when its text
\* names a word of the default list.
C25_RegionWords ==
  \A i \in 1..Len(visits) :
    visits[i].hasRegion <=>
      IF configured
      THEN mentions(flat[i], cfg.regions.list)
      ELSE mentions(flat[i], DEFAULT_REGION_WORDS)

\* under the list ["Sudan"] an item on Sudan was kept and an item on Mali,
\* a word of the default list, was dropped
C25_Witness ==
  /\ Done
  /\ cfg.regions = [isArray |-> TRUE, list |-> <<RegionSudan>>]
  /\ \E i \in 1..Len(flat) : flat[i].title = TitleCustom /\ included(i)
  /\ \E i \in 1..Len(flat) :
       flat[i].title = TitleRegion /\ ~visits[i].hasRegion /\ ~included(i)
=============================================================================
